---- MODULE Spec2Model ----
(***************************************************************************)
(* Living runbooks: the runbook store's append operations                  *)
(* (annotate_incident.py, slack/handler.py, diagnostics.py,                *)
(* diagnose_high_cpu.py), the suggestion engine (suggest_updates.py) and   *)
(* the diagnostics comparison tool (diagnostics_compare.py).               *)
(*                                                                         *)
(* Representation.                                                         *)
(*  - A Python dict whose key order nothing observes (the runbook, an      *)
(*    annotation, a diagnostic record) is a TLA+ function on its keys.     *)
(*  - A Python dict whose key order is observable (a result_blob given to  *)
(*    json.dumps, a Counter iterated by .items()) is a sequence of         *)
(*    <<key, value>> pairs in insertion order.                             *)
(*  - A text is the sequence of its whitespace-separated words, with two   *)
(*    flags for leading and trailing whitespace.                           *)
(*  - sha256 is taken to be collision free: a digest is represented by     *)
(*    the string it was computed from.                                     *)
(*  - A value of a result_blob is tagged with its Python type; a JSON text *)
(*    is represented by the structure it spells, keys in written order.    *)
(*                                                                         *)
(* Specifications: Spec (one append at a time, a call may stop at any      *)
(* step), SpecConcurrent (two appends at once), SpecSuggest, SpecClassify, *)
(* SpecHash and SpecCompare (one component each, over bounded inputs),     *)
(* SpecAnalysis (the four analytical operations on one runbook) and        *)
(* SpecSlack (the Slack handler, from the payload to its response).        *)
(***************************************************************************)
EXTENDS Integers, Sequences, FiniteSets, TLC

VARIABLES
    disk,      \* the runbook file: [kind |-> "empty"] or [kind |-> "yaml", doc |-> ...]
    tmp,       \* the NamedTemporaryFile of annotate_runbook, NoFile when there is none
    pc,        \* position of the running call, "idle" between calls
    call,      \* the running (or last) call: [fn |-> name, ...arguments]
    runbook,   \* the running call's local variable `runbook`
    ret,       \* how the last call ended: [status |-> "none" | "returned" | "raised" | "crashed", ...]
    called     \* history: the file content at the moment the running (or last) call began

vars == <<disk, tmp, pc, call, runbook, ret, called>>

----------------------------------------------------------------------------
(* Bounds of the model *)

MaxAnnotations == 2   \* the store stops accepting annotation appends at this length
MaxDiagnostics == 2   \* the store stops accepting diagnostic appends at this length
MaxScan == 3          \* longest annotation history given to the suggestion engine
MaxHistory == 3       \* longest diagnostics history given to the comparison tool
MaxWords == 3         \* longest generated text given to the classifiers, in words

----------------------------------------------------------------------------
(* Python values *)

None == [kind |-> "None"]

Has(d, k) == k \in DOMAIN d

\* dict.get(k, default)
Get(d, k, default) == IF k \in DOMAIN d THEN d[k] ELSE default

\* d[k] = v
Put(d, k, v) == [x \in (DOMAIN d) \cup {k} |-> IF x = k THEN v ELSE d[x]]

\* An insertion-ordered dict as <<key, value>> pairs: the mapping it denotes.
PairKeys(pairs) == {pairs[i][1] : i \in DOMAIN pairs}

PairGet(pairs, k, default) ==
    IF k \in PairKeys(pairs)
    THEN (CHOOSE p \in {pairs[i] : i \in DOMAIN pairs} : p[1] = k)[2]
    ELSE default

AsMap(pairs) == [k \in PairKeys(pairs) |-> PairGet(pairs, k, None)]

\* The values of a result_blob. A nested dict keeps its insertion order, a
\* set the order in which it iterates and an object without __str__ its
\* address: str() shows them. `Circular` stands for a reference from inside
\* a container back to a container that holds it.
Num(n) == [int |-> n]
Str(s) == [str |-> s]
Dict(pairs) == [dict |-> pairs]
List(items) == [list |-> items]
Datetime(isoformat) == [datetime |-> isoformat]
SetOf(iteration) == [set |-> iteration]
Object(address) == [object |-> address]
Circular == [circular |-> TRUE]

\* What Python's == compares: a dict as a mapping on its keys, a set as its
\* elements, an object without __eq__ as its identity, anything else by
\* value.
RECURSIVE Structure(_)
Structure(value) ==
    IF Has(value, "dict")
    THEN [dict |-> [k \in PairKeys(value.dict) |->
                       Structure(PairGet(value.dict, k, None))]]
    ELSE IF Has(value, "list")
    THEN [list |-> [i \in DOMAIN value.list |-> Structure(value.list[i])]]
    ELSE IF Has(value, "set")
    THEN [set |-> {value.set[i] : i \in DOMAIN value.set}]
    ELSE value

\* Python's dict == dict on two insertion-ordered dicts
DictEq(a, b) == Structure(Dict(a)) = Structure(Dict(b))

----------------------------------------------------------------------------
(* Serialisation: json.dumps(sort_keys=True), sha256, yaml.dump, yaml.safe_load *)

\* The keys used in result_blobs, in Python's string order.
KeyOrder ==
    <<"1min", "5min", "captured_at", "command", "cpu_usage", "disk_usage", "free_kb",
      "load_average", "memory", "memory_usage", "pid", "processes", "self", "tags",
      "top_processes", "total_processes", "used_kb">>

KeyRank(k) == CHOOSE i \in DOMAIN KeyOrder : KeyOrder[i] = k

RECURSIVE InsertByKey(_, _)
InsertByKey(sorted, p) ==
    IF sorted = <<>> THEN <<p>>
    ELSE IF KeyRank(p[1]) < KeyRank(Head(sorted)[1])
         THEN <<p>> \o sorted
         ELSE <<Head(sorted)>> \o InsertByKey(Tail(sorted), p)

RECURSIVE SortByKey(_)
SortByKey(pairs) ==
    IF pairs = <<>> THEN <<>>
    ELSE InsertByKey(SortByKey(SubSeq(pairs, 1, Len(pairs) - 1)), pairs[Len(pairs)])

\* The mappings of a value written with their keys sorted, at every depth.
RECURSIVE sort_keys(_)
sort_keys(value) ==
    IF Has(value, "dict")
    THEN Dict(SortByKey([i \in DOMAIN value.dict |->
                            <<value.dict[i][1], sort_keys(value.dict[i][2])>>]))
    ELSE IF Has(value, "list")
    THEN List([i \in DOMAIN value.list |-> sort_keys(value.list[i])])
    ELSE value

\* sorted(result_blob.items()): the keys of the outer mapping sorted, the
\* nested mappings left as they are
sort_keys_top_level(value) ==
    IF Has(value, "dict") THEN Dict(SortByKey(value.dict)) ELSE value

\* default=str: what the encoder cannot write itself is written as the
\* JSON string str() gives for it.
RECURSIVE default_str(_)
default_str(value) ==
    IF Has(value, "dict")
    THEN Dict([i \in DOMAIN value.dict |->
                  <<value.dict[i][1], default_str(value.dict[i][2])>>])
    ELSE IF Has(value, "list")
    THEN List([i \in DOMAIN value.list |-> default_str(value.list[i])])
    ELSE IF Has(value, "datetime") THEN Str(value.datetime)
    ELSE IF Has(value, "set") THEN Str(value)
    ELSE IF Has(value, "object") THEN Str(value)
    ELSE value

\* The encoder's check_circular: ValueError("Circular reference detected")
RECURSIVE has_circular_reference(_)
has_circular_reference(value) ==
    IF Has(value, "dict")
    THEN \E i \in DOMAIN value.dict : has_circular_reference(value.dict[i][2])
    ELSE IF Has(value, "list")
    THEN \E i \in DOMAIN value.list : has_circular_reference(value.list[i])
    ELSE Has(value, "circular")

\* json.dumps(result_blob, sort_keys=True, default=str)
json_dumps_top_level_sorted(result_blob) ==
    sort_keys_top_level(default_str(Dict(result_blob))).dict

json_dumps_sorted(result_blob) == sort_keys(default_str(Dict(result_blob))).dict

\* json.dumps(result_blob, default=str) without sort_keys: insertion order
json_dumps_unsorted(result_blob) == default_str(Dict(result_blob)).dict

sha256_hexdigest(s) == [sha256 |-> s]

generate_result_hash_unsorted(result_blob) ==
    sha256_hexdigest(json_dumps_unsorted(result_blob))

generate_result_hash(result_blob) ==
    sha256_hexdigest(json_dumps_sorted(result_blob))

\* yaml.dump writes every mapping with its keys sorted (PyYAML's default), so
\* a result_blob comes back from the file in key order.
yaml_represent_record(record) ==
    IF Has(record, "result_blob")
    THEN Put(record, "result_blob", sort_keys(Dict(record["result_blob"])).dict)
    ELSE record

yaml_represent(data) ==
    IF Has(data, "diagnostics")
    THEN Put(data, "diagnostics",
             [i \in DOMAIN data["diagnostics"] |->
                 yaml_represent_record(data["diagnostics"][i])])
    ELSE data

EmptyFile == [kind |-> "empty"]

NoFile == [kind |-> "nofile"]

yaml_dump(data) == [kind |-> "yaml", doc |-> yaml_represent(data)]

\* yaml.safe_load of a file of zero bytes is None
yaml_safe_load(file) == IF file = EmptyFile THEN None ELSE file.doc

----------------------------------------------------------------------------
(* Texts *)

Text(lead, words, trail) == [lead |-> lead, words |-> words, trail |-> trail]

EmptyStr == Text(FALSE, <<>>, FALSE)

CauseLeak == Text(FALSE, <<"Memory", "leak", "in", "service">>, FALSE)
CauseCpuLeak == Text(FALSE, <<"High", "CPU", "usage", "due", "to", "memory", "leak">>, FALSE)
CauseTimeout == Text(TRUE, <<"Connection", "timeout", "to", "database">>, TRUE)
CauseOther == Text(FALSE, <<"disk", "on", "fire">>, FALSE)

FixIncrease == Text(FALSE, <<"Increased", "pod", "memory", "limits">>, FALSE)
FixRestart == Text(FALSE, <<"Restarted", "the", "service", "pod">>, TRUE)
FixBoth == Text(FALSE, <<"Restarted", "pod", "and", "increased", "memory">>, FALSE)
FixOther == Text(FALSE, <<"prayed">>, FALSE)

----------------------------------------------------------------------------
(* Inputs of the store operations *)

Timestamps == {"2026-01-04T10:00:00"}

\* The symptoms argument of annotate_runbook: None, a str or a list.
PyStr(s) == [type |-> "str", value |-> s]
PyList(items) == [type |-> "list", items |-> items]

AnnotateArguments ==
    { [incident_id |-> "INC-1", cause |-> CauseLeak, fix |-> FixIncrease,
       symptoms |-> None, runbook_gap |-> None],
      [incident_id |-> "INC-2", cause |-> CauseTimeout, fix |-> FixRestart,
       symptoms |-> PyStr("5xx errors"), runbook_gap |-> PyStr("no memory step")],
      [incident_id |-> "INC-2", cause |-> CauseCpuLeak, fix |-> FixIncrease,
       symptoms |-> PyList(<<"High CPU usage", "5xx errors">>), runbook_gap |-> None] }

SlackAnnotations ==
    { [incident_id |-> "INC-3", timestamp |-> ts, cause |-> CauseLeak, fix |-> FixBoth]
        : ts \in Timestamps }
    \cup
    { [incident_id |-> "INC-1", timestamp |-> ts, cause |-> CauseOther, fix |-> FixOther,
       symptoms |-> <<"High CPU usage">>] : ts \in Timestamps }

\* result_blobs as the caller built them (insertion order)
MetricsBlobs ==
    { << <<"memory_usage", Num(67)>>, <<"cpu_usage", Num(45)>> >>,
      << <<"cpu_usage", Num(45)>>, <<"memory_usage", Num(67)>> >>,
      << <<"cpu_usage", Num(45)>>, <<"disk_usage", Num(82)>> >> }

TopProcesses == { << <<"top_processes", Num(1)>> >> }

create_diagnostic_record(timestamp, source, query, result_blob, provenance) ==
    [timestamp |-> timestamp,
     source |-> source,
     query |-> query,
     result_hash |-> generate_result_hash(result_blob),
     result_blob |-> result_blob,
     provenance |-> provenance]

\* diagnostics.main: the record handed to append_diagnostic_to_runbook
CreatedRecords ==
    { create_diagnostic_record(ts, "kubectl", "get_system_metrics", blob, "automated")
        : ts \in Timestamps, blob \in MetricsBlobs }

----------------------------------------------------------------------------
(* The runbook document *)

DocOf(file) == IF file.kind = "yaml" THEN file.doc ELSE <<>>

ListOf(file, key) == Get(DocOf(file), key, <<>>)

BaseDoc == [title |-> "Service X", steps |-> <<"check cpu">>]

InitialDocs ==
    { BaseDoc,
      Put(BaseDoc, "annotations", <<>>),
      Put(BaseDoc, "diagnostics", <<>>),
      Put(Put(BaseDoc, "annotations", <<>>), "diagnostics", <<>>) }

Idle == [fn |-> "none"]

NoResult == [status |-> "none"]

Init ==
    /\ disk \in {yaml_dump(d) : d \in InitialDocs} \cup {EmptyFile}
    /\ tmp = NoFile
    /\ pc = "idle"
    /\ call = Idle
    /\ runbook = None
    /\ ret = NoResult
    /\ called = disk

\* list.append(x)
list_prepend(list, x) == <<x>> \o list

list_append(list, x) == Append(list, x)

\* runbook[key] = [x]
list_overwrite(list, x) == <<x>>

diagnostics_append(list, x) == Append(list, x)

Raise(error) ==
    /\ pc' = "idle"
    /\ ret' = [status |-> "raised", error |-> error]
    /\ runbook' = None
    /\ UNCHANGED <<disk, tmp, call, called>>

Return ==
    /\ pc' = "idle"
    /\ ret' = [status |-> "returned"]
    /\ runbook' = None

Begin(c) ==
    /\ pc = "idle"
    /\ call' = c
    /\ pc' = "load"
    /\ called' = disk
    /\ ret' = NoResult
    /\ runbook' = None
    /\ UNCHANGED <<disk, tmp>>

At(fn, position) == pc = position /\ call.fn = fn

----------------------------------------------------------------------------
(* annotate_incident.py: annotate_runbook *)

annotate_runbook_call ==
    \E a \in AnnotateArguments :
        /\ Len(ListOf(disk, "annotations")) < MaxAnnotations
        /\ Begin([fn |-> "annotate_runbook", incident_id |-> a.incident_id,
                  cause |-> a.cause, fix |-> a.fix, symptoms |-> a.symptoms,
                  runbook_gap |-> a.runbook_gap])

annotate_runbook_load ==
    /\ At("annotate_runbook", "load")
    /\ runbook' = yaml_safe_load(disk)
    /\ pc' = "append"
    /\ UNCHANGED <<disk, tmp, call, ret, called>>

\* `if symptoms:` and the isinstance test
Truthy(v) ==
    /\ v # None
    /\ v.type = "str" => v.value # ""
    /\ v.type = "list" => v.items # <<>>

new_annotation(c, timestamp) ==
    LET base == [incident_id |-> c.incident_id, timestamp |-> timestamp,
                 cause |-> c.cause, fix |-> c.fix]
        withSymptoms ==
            IF Truthy(c.symptoms)
            THEN Put(base, "symptoms",
                     IF c.symptoms.type = "list" THEN c.symptoms.items
                     ELSE <<c.symptoms.value>>)
            ELSE base
    IN  IF Truthy(c.runbook_gap)
        THEN Put(withSymptoms, "runbook_gap", c.runbook_gap.value)
        ELSE withSymptoms

annotate_runbook_append ==
    /\ At("annotate_runbook", "append")
    /\ \E ts \in Timestamps :
        IF runbook = None
        THEN Raise("AttributeError")
        ELSE /\ runbook' = Put(runbook, "annotations",
                               list_append(Get(runbook, "annotations", <<>>),
                                           new_annotation(call, ts)))
             /\ pc' = "tempfile"
             /\ UNCHANGED <<disk, tmp, call, ret, called>>

annotate_runbook_tempfile ==
    /\ At("annotate_runbook", "tempfile")
    /\ tmp' = yaml_dump(runbook)
    /\ pc' = "replace"
    /\ UNCHANGED <<disk, call, runbook, ret, called>>

annotate_runbook_replace ==
    /\ At("annotate_runbook", "replace")
    /\ disk' = tmp
    /\ tmp' = NoFile
    /\ Return
    /\ UNCHANGED <<call, called>>

----------------------------------------------------------------------------
(* slack/handler.py: append_annotation_to_runbook *)

append_annotation_to_runbook_call ==
    \E a \in SlackAnnotations :
        /\ Len(ListOf(disk, "annotations")) < MaxAnnotations
        /\ Begin([fn |-> "append_annotation_to_runbook", annotation |-> a])

append_annotation_to_runbook_load ==
    /\ At("append_annotation_to_runbook", "load")
    /\ runbook' = yaml_safe_load(disk)
    /\ pc' = "append"
    /\ UNCHANGED <<disk, tmp, call, ret, called>>

append_annotation_to_runbook_append ==
    /\ At("append_annotation_to_runbook", "append")
    /\ IF runbook = None
       THEN Raise("TypeError")
       ELSE /\ runbook' = Put(runbook, "annotations",
                              list_append(Get(runbook, "annotations", <<>>),
                                          call.annotation))
            /\ pc' = "open"
            /\ UNCHANGED <<disk, tmp, call, ret, called>>

\* open(runbook_file, 'w') truncates the file
append_annotation_to_runbook_open ==
    /\ At("append_annotation_to_runbook", "open")
    /\ disk' = EmptyFile
    /\ pc' = "dump"
    /\ UNCHANGED <<tmp, call, runbook, ret, called>>

append_annotation_to_runbook_dump ==
    /\ At("append_annotation_to_runbook", "dump")
    /\ disk' = yaml_dump(runbook)
    /\ Return
    /\ UNCHANGED <<tmp, call, called>>

----------------------------------------------------------------------------
(* diagnostics.py: append_diagnostic_to_runbook, called by main with the
   record create_diagnostic_record returned *)

diagnostics_append_diagnostic_to_runbook_call ==
    \E r \in CreatedRecords :
        /\ Len(ListOf(disk, "diagnostics")) < MaxDiagnostics
        /\ Begin([fn |-> "diagnostics.append_diagnostic_to_runbook",
                  diagnostic_record |-> r])

diagnostics_append_diagnostic_to_runbook_load ==
    /\ At("diagnostics.append_diagnostic_to_runbook", "load")
    /\ runbook' = yaml_safe_load(disk)
    /\ pc' = "append"
    /\ UNCHANGED <<disk, tmp, call, ret, called>>

diagnostics_append_diagnostic_to_runbook_append ==
    /\ At("diagnostics.append_diagnostic_to_runbook", "append")
    /\ IF runbook = None
       THEN Raise("TypeError")
       ELSE /\ runbook' = Put(runbook, "diagnostics",
                              diagnostics_append(Get(runbook, "diagnostics", <<>>),
                                                 call.diagnostic_record))
            /\ pc' = "open"
            /\ UNCHANGED <<disk, tmp, call, ret, called>>

diagnostics_append_diagnostic_to_runbook_open ==
    /\ At("diagnostics.append_diagnostic_to_runbook", "open")
    /\ disk' = EmptyFile
    /\ pc' = "dump"
    /\ UNCHANGED <<tmp, call, runbook, ret, called>>

diagnostics_append_diagnostic_to_runbook_dump ==
    /\ At("diagnostics.append_diagnostic_to_runbook", "dump")
    /\ disk' = yaml_dump(runbook)
    /\ Return
    /\ UNCHANGED <<tmp, call, called>>

----------------------------------------------------------------------------
(* diagnose_high_cpu.py: append_diagnostic_to_runbook *)

diagnose_high_cpu_append_diagnostic_to_runbook_call ==
    \E data \in TopProcesses :
        /\ Len(ListOf(disk, "diagnostics")) < MaxDiagnostics
        /\ Begin([fn |-> "diagnose_high_cpu.append_diagnostic_to_runbook",
                  diagnostic_data |-> data])

\* runbook = yaml.safe_load(f) or {}
diagnose_high_cpu_append_diagnostic_to_runbook_load ==
    /\ At("diagnose_high_cpu.append_diagnostic_to_runbook", "load")
    /\ runbook' = IF yaml_safe_load(disk) = None THEN <<>> ELSE yaml_safe_load(disk)
    /\ pc' = "append"
    /\ UNCHANGED <<disk, tmp, call, ret, called>>

high_cpu_record(diagnostic_data, timestamp) ==
    [timestamp |-> timestamp,
     source |-> "system_monitor",
     query |-> "get_top_processes",
     result_hash |-> generate_result_hash(diagnostic_data),
     result_blob |-> diagnostic_data,
     provenance |-> "automated"]

diagnose_high_cpu_append_diagnostic_to_runbook_append ==
    /\ At("diagnose_high_cpu.append_diagnostic_to_runbook", "append")
    /\ \E ts \in Timestamps :
        runbook' = Put(runbook, "diagnostics",
                       diagnostics_append(Get(runbook, "diagnostics", <<>>),
                                          high_cpu_record(call.diagnostic_data, ts)))
    /\ pc' = "open"
    /\ UNCHANGED <<disk, tmp, call, ret, called>>

diagnose_high_cpu_append_diagnostic_to_runbook_open ==
    /\ At("diagnose_high_cpu.append_diagnostic_to_runbook", "open")
    /\ disk' = EmptyFile
    /\ pc' = "dump"
    /\ UNCHANGED <<tmp, call, runbook, ret, called>>

diagnose_high_cpu_append_diagnostic_to_runbook_dump ==
    /\ At("diagnose_high_cpu.append_diagnostic_to_runbook", "dump")
    /\ disk' = yaml_dump(runbook)
    /\ Return
    /\ UNCHANGED <<tmp, call, called>>

----------------------------------------------------------------------------
(* The process running a call stops: its locals are lost and the runbook
   file stays as it is. A temporary file stays behind too (delete=False),
   under a name no later call opens: it is no call's temporary file any more. *)

Crash ==
    /\ pc # "idle"
    /\ pc' = "idle"
    /\ ret' = [status |-> "crashed", at |-> pc]
    /\ runbook' = None
    /\ tmp' = NoFile
    /\ UNCHANGED <<disk, call, called>>

Next ==
    \/ annotate_runbook_call
    \/ annotate_runbook_load
    \/ annotate_runbook_append
    \/ annotate_runbook_tempfile
    \/ annotate_runbook_replace
    \/ append_annotation_to_runbook_call
    \/ append_annotation_to_runbook_load
    \/ append_annotation_to_runbook_append
    \/ append_annotation_to_runbook_open
    \/ append_annotation_to_runbook_dump
    \/ diagnostics_append_diagnostic_to_runbook_call
    \/ diagnostics_append_diagnostic_to_runbook_load
    \/ diagnostics_append_diagnostic_to_runbook_append
    \/ diagnostics_append_diagnostic_to_runbook_open
    \/ diagnostics_append_diagnostic_to_runbook_dump
    \/ diagnose_high_cpu_append_diagnostic_to_runbook_call
    \/ diagnose_high_cpu_append_diagnostic_to_runbook_load
    \/ diagnose_high_cpu_append_diagnostic_to_runbook_append
    \/ diagnose_high_cpu_append_diagnostic_to_runbook_open
    \/ diagnose_high_cpu_append_diagnostic_to_runbook_dump
    \/ Crash

Spec == Init /\ [][Next]_vars

----------------------------------------------------------------------------
(* Properties of the store operations, checked under Spec *)

AnnotationAppends == {"annotate_runbook", "append_annotation_to_runbook"}

DiagnosticAppends == {"diagnostics.append_diagnostic_to_runbook",
                      "diagnose_high_cpu.append_diagnostic_to_runbook"}

TargetKey(c) == IF c.fn \in AnnotationAppends THEN "annotations" ELSE "diagnostics"

Last(list) == list[Len(list)]

\* `after` is a complete document: `before` with one more element at the end
\* of the list under `key` (created when absent) and nothing else changed.
OneAppended(before, after, key) ==
    /\ after.kind = "yaml"
    /\ DOMAIN after.doc = (DOMAIN DocOf(before)) \cup {key}
    /\ \A k \in (DOMAIN DocOf(before)) \ {key} : after.doc[k] = DocOf(before)[k]
    /\ Len(after.doc[key]) = Len(ListOf(before, key)) + 1
    /\ SubSeq(after.doc[key], 1, Len(ListOf(before, key))) = ListOf(before, key)

Returned(fns) == ret.status = "returned" /\ call.fn \in fns

\* yaml.safe_load gave a mapping
Loadable(file) == file.kind = "yaml"

\* C2: at every step of every append operation, and after the process has
\* stopped at any of them, the runbook file holds either the complete
\* document from before the call or the complete document with the new
\* record appended.
C2_EveryAppendIsCrashSafe ==
    call.fn # "none" =>
        \/ disk = called
        \/ OneAppended(called, disk, TargetKey(call))

\* The part of C2 that the code keeps: annotate_runbook, which writes a
\* temporary file and renames it over the runbook.
AnnotateRunbookIsCrashSafe ==
    call.fn = "annotate_runbook" =>
        \/ disk = called
        \/ OneAppended(called, disk, "annotations")

\* The arguments an annotation append was given.
PassedAnnotation(c) == IF c.fn = "annotate_runbook" THEN c ELSE c.annotation

\* C3: after every annotate_runbook or Slack append_annotation_to_runbook
\* call that returns, the annotations list from before the call is an
\* unchanged prefix of the list in the file, the list is exactly one element
\* longer, and the new last element carries the incident_id, cause and fix
\* that were passed in.
C3_AnnotationsAppendOnly ==
    Returned(AnnotationAppends) =>
        LET old == ListOf(called, "annotations")
            new == ListOf(disk, "annotations")
        IN  /\ Len(new) = Len(old) + 1
            /\ SubSeq(new, 1, Len(old)) = old
            /\ Last(new).incident_id = PassedAnnotation(call).incident_id
            /\ Last(new).cause = PassedAnnotation(call).cause
            /\ Last(new).fix = PassedAnnotation(call).fix

\* A Slack append has returned on a runbook that already held an annotation
\* written by annotate_runbook.
C3_Witness ==
    /\ Returned({"append_annotation_to_runbook"})
    /\ Len(ListOf(called, "annotations")) >= 1
    /\ ListOf(called, "annotations")[1].incident_id = "INC-2"

\* The Python dict a diagnostic append was given, as a mapping.
GivenDiagnostic(c) ==
    IF c.fn = "diagnostics.append_diagnostic_to_runbook"
    THEN c.diagnostic_record
    ELSE AsMap(c.diagnostic_data)

\* C4 as written: after either append_diagnostic_to_runbook returns on a
\* loadable runbook, the diagnostics list has exactly one more element,
\* placed last, the rest of the runbook is unchanged, and that element is the
\* given record with its source, result_blob and result_hash intact.
C4_AppendsTheGivenRecord ==
    Returned(DiagnosticAppends) /\ Loadable(called) =>
        /\ OneAppended(called, disk, "diagnostics")
        /\ LET given == GivenDiagnostic(call)
               added == Last(ListOf(disk, "diagnostics"))
           IN  /\ Has(given, "source") /\ added.source = given.source
               /\ Has(given, "result_hash") /\ added.result_hash = given.result_hash
               /\ Has(given, "result_blob")
               /\ DictEq(added.result_blob, given.result_blob)

\* C4 amended: after either append_diagnostic_to_runbook returns on a
\* loadable runbook, the diagnostics list has exactly one more element,
\* placed last (the list is created when the key is absent), and the rest of
\* the runbook is unchanged.
\* For diagnostics.py that element is the given record with its source,
\* result_blob and result_hash intact; diagnose_high_cpu.py is given the
\* diagnostic data and appends a record it builds: source "system_monitor",
\* result_blob the data, result_hash the hash of the data.
C4_AppendsOneDiagnostic ==
    Returned(DiagnosticAppends) /\ Loadable(called) =>
        /\ OneAppended(called, disk, "diagnostics")
        /\ ~Has(DocOf(called), "diagnostics") => Len(ListOf(disk, "diagnostics")) = 1
        /\ LET added == Last(ListOf(disk, "diagnostics"))
           IN  IF call.fn = "diagnostics.append_diagnostic_to_runbook"
               THEN /\ added.source = call.diagnostic_record.source
                    /\ added.result_hash = call.diagnostic_record.result_hash
                    /\ DictEq(added.result_blob, call.diagnostic_record.result_blob)
                    /\ added.timestamp = call.diagnostic_record.timestamp
                    /\ added.query = call.diagnostic_record.query
                    /\ added.provenance = call.diagnostic_record.provenance
               ELSE /\ added.source = "system_monitor"
                    /\ added.result_hash = generate_result_hash(call.diagnostic_data)
                    /\ DictEq(added.result_blob, call.diagnostic_data)

\* diagnostics.py's append has returned on a runbook that already held a
\* diagnostic and an annotation.
C4_Witness ==
    /\ Returned({"diagnostics.append_diagnostic_to_runbook"})
    /\ Loadable(called)
    /\ Len(ListOf(called, "diagnostics")) >= 1
    /\ Len(ListOf(called, "annotations")) >= 1

DiagnosticsIn(doc) == {doc["diagnostics"][i] : i \in DOMAIN Get(doc, "diagnostics", <<>>)}

\* C5: in every reachable state, every diagnostic record of the runbook, in
\* the file or loaded in memory, has result_hash equal to
\* generate_result_hash of its own result_blob.
C5_HashMatchesBlob ==
    /\ \A r \in DiagnosticsIn(DocOf(disk)) :
           r.result_hash = generate_result_hash(r.result_blob)
    /\ runbook # None =>
           \A r \in DiagnosticsIn(runbook) :
               r.result_hash = generate_result_hash(r.result_blob)

\* The file holds a record of each producer, and the record just appended
\* was created from a result_blob whose keys were not inserted in sorted
\* order.
C5_Witness ==
    /\ Returned({"diagnostics.append_diagnostic_to_runbook"})
    /\ call.diagnostic_record.result_blob # SortByKey(call.diagnostic_record.result_blob)
    /\ \E r \in DiagnosticsIn(DocOf(disk)) : r.source = "system_monitor"
    /\ \E r \in DiagnosticsIn(DocOf(disk)) : r.source = "kubectl"

----------------------------------------------------------------------------
(* diagnostics_compare.py *)

\* Records of a diagnostics history: two with the same result_blob taken at
\* different times, one with another result_blob, one without a result_hash,
\* one with a result_hash and a query only.
HistoryTimestamps == {"2026-01-01T10:00:00", "2026-01-02T11:00:00"}

HistoryRecords ==
    { create_diagnostic_record(ts, "kubectl", "get_system_metrics",
                               << <<"memory_usage", Num(67)>>, <<"cpu_usage", Num(45)>> >>,
                               "automated") : ts \in HistoryTimestamps }
    \cup
    { create_diagnostic_record("2026-01-03T12:00:00", "datadog", "get_system_metrics",
                               << <<"cpu_usage", Num(45)>>, <<"disk_usage", Num(82)>> >>,
                               "manual"),
      [timestamp |-> "2026-01-03T12:00:00", source |-> "manual",
       result_blob |-> << <<"cpu_usage", Num(90)>>,
                          <<"memory", Dict(<< <<"used_kb", Num(4)>> >>)>> >>],
      [query |-> "get_system_metrics",
       result_hash |-> generate_result_hash(<< <<"cpu_usage", Num(45)>>,
                                               <<"memory_usage", Num(67)>> >>)] }

RECURSIVE SeqsUpTo(_, _)
SeqsUpTo(S, n) ==
    IF n = 0 THEN {<<>>}
    ELSE LET shorter == SeqsUpTo(S, n - 1)
         IN  shorter \cup {Append(s, x) : s \in shorter, x \in S}

TargetHashes ==
    { generate_result_hash(<< <<"cpu_usage", Num(45)>>, <<"memory_usage", Num(67)>> >>),
      generate_result_hash(<< <<"cpu_usage", Num(45)>>, <<"disk_usage", Num(82)>> >>),
      generate_result_hash(<< <<"top_processes", Num(1)>> >>) }

MaxResults == {-1, 0, 1, 2, 5}

InitCompare ==
    /\ disk \in {yaml_dump(Put(BaseDoc, "diagnostics", h))
                    : h \in SeqsUpTo(HistoryRecords, MaxHistory)}
                \cup {yaml_dump(BaseDoc), EmptyFile}
    /\ tmp = NoFile
    /\ pc = "idle"
    /\ call = Idle
    /\ runbook = None
    /\ ret = NoResult
    /\ called = disk

load_diagnostics_from_runbook(file) == Get(yaml_safe_load(file), "diagnostics", <<>>)

\* the for loop of find_similar_diagnostics, from `all_diagnostics` on, with
\* `similar` collected so far
RECURSIVE find_similar_loop(_, _, _, _)
find_similar_loop(all_diagnostics, target_hash, max_results, similar) ==
    IF all_diagnostics = <<>> THEN similar
    ELSE LET diagnostic == Head(all_diagnostics)
         IN  IF Get(diagnostic, "result_hash", None) = target_hash
             THEN IF Len(Append(similar, diagnostic)) >= max_results
                  THEN Append(similar, diagnostic)
                  ELSE find_similar_loop(Tail(all_diagnostics), target_hash,
                                         max_results, Append(similar, diagnostic))
             ELSE find_similar_loop(Tail(all_diagnostics), target_hash,
                                    max_results, similar)

find_similar_diagnostics_call ==
    \E target_hash \in TargetHashes, max_results \in MaxResults :
        /\ pc = "idle"
        /\ call' = [fn |-> "find_similar_diagnostics", target_hash |-> target_hash,
                    max_results |-> max_results]
        /\ ret' = IF yaml_safe_load(disk) = None
                  THEN [status |-> "raised", error |-> "AttributeError"]
                  ELSE [status |-> "returned",
                        value |-> find_similar_loop(load_diagnostics_from_runbook(disk),
                                                    target_hash, max_results, <<>>)]
        /\ UNCHANGED <<disk, tmp, pc, runbook, called>>

\* d.get(key, 'unknown')
dict_get_or_unknown(d, key) == Get(d, key, Str("unknown"))

\* d.get(key)
dict_get(d, key) == Get(d, key, None)

\* result1[key] != result2[key]
NotEqual(value1, value2) == Structure(value1) # Structure(value2)

\* the loop over common_keys
common_entries(result1, result2) ==
    [key \in {k \in PairKeys(result1) \cap PairKeys(result2) :
                 NotEqual(PairGet(result1, k, None), PairGet(result2, k, None))} |->
        [value1 |-> PairGet(result1, key, None), value2 |-> PairGet(result2, key, None)]]

\* the loop over the keys only in the first
only_first_entries(result1, result2) ==
    [key \in PairKeys(result1) \ PairKeys(result2) |->
        [value1 |-> PairGet(result1, key, None), value2 |-> None]]

\* the third loop written as a copy of the second
only_second_entries_as_first(result1, result2) ==
    [key \in PairKeys(result2) \ PairKeys(result1) |->
        [value1 |-> PairGet(result2, key, None), value2 |-> None]]

\* the loop over the keys only in the second
only_second_entries(result1, result2) ==
    [key \in PairKeys(result2) \ PairKeys(result1) |->
        [value1 |-> None, value2 |-> PairGet(result2, key, None)]]

\* comparison['differences'][key] = ... in the three loops, a later
\* assignment to a key replacing an earlier one
compare_diagnostics(diagnostic1, diagnostic2) ==
    LET result1 == Get(diagnostic1, "result_blob", <<>>)
        result2 == Get(diagnostic2, "result_blob", <<>>)
    IN  [timestamp1 |-> dict_get(diagnostic1, "timestamp"),
         timestamp2 |-> dict_get(diagnostic2, "timestamp"),
         source1 |-> dict_get(diagnostic1, "source"),
         source2 |-> dict_get(diagnostic2, "source"),
         differences |-> only_second_entries(result1, result2)
                            @@ only_first_entries(result1, result2)
                            @@ common_entries(result1, result2)]

\* compare_diagnostics on two records of the history
compare_diagnostics_call ==
    \E i \in DOMAIN ListOf(disk, "diagnostics"), j \in DOMAIN ListOf(disk, "diagnostics") :
        /\ pc = "idle"
        /\ call' = [fn |-> "compare_diagnostics",
                    diagnostic1 |-> ListOf(disk, "diagnostics")[i],
                    diagnostic2 |-> ListOf(disk, "diagnostics")[j]]
        /\ ret' = [status |-> "returned",
                   value |-> compare_diagnostics(ListOf(disk, "diagnostics")[i],
                                                 ListOf(disk, "diagnostics")[j])]
        /\ UNCHANGED <<disk, tmp, pc, runbook, called>>

NextCompare ==
    \/ find_similar_diagnostics_call
    \/ compare_diagnostics_call

SpecCompare == InitCompare /\ [][NextCompare]_vars

\* The matches of target_hash in a history, in history order.
RECURSIVE Matches(_, _)
Matches(history, target_hash) ==
    IF history = <<>> THEN <<>>
    ELSE IF Get(Head(history), "result_hash", None) = target_hash
         THEN <<Head(history)>> \o Matches(Tail(history), target_hash)
         ELSE Matches(Tail(history), target_hash)

IsPrefix(s, t) == Len(s) <= Len(t) /\ SubSeq(t, 1, Len(s)) = s

\* C1: for every history and every max_results N, zero and negative N
\* included, find_similar_diagnostics returns at most N records (none when N
\* is negative, where no list has at most N elements), and they are matches
\* of target_hash in the order of the history.
C1_AtMostMaxResultsInOrder ==
    Returned({"find_similar_diagnostics"}) =>
        /\ \/ Len(ret.value) <= call.max_results
           \/ call.max_results < 0 /\ ret.value = <<>>
        /\ IsPrefix(ret.value, Matches(ListOf(disk, "diagnostics"), call.target_hash))

\* What the loop does return: the first matches in history order, N of them
\* for N >= 1 and one of them for N <= 0, or all when there are fewer.
FindSimilarReturnsFirstMatches ==
    Returned({"find_similar_diagnostics"}) =>
        LET matches == Matches(ListOf(disk, "diagnostics"), call.target_hash)
            limit == IF call.max_results >= 1 THEN call.max_results ELSE 1
        IN  /\ IsPrefix(ret.value, matches)
            /\ Len(ret.value) = IF Len(matches) <= limit THEN Len(matches) ELSE limit

----------------------------------------------------------------------------
(* suggest_updates.py: the pattern tables.

   A pattern is a sequence of sets of words, one set per whitespace-separated
   part of the regular expression (the alternatives of that part), and `gap`
   tells whether the expression lets other words stand between its two parts
   ("\s+.*?"). The texts of the model contain the literals of the patterns
   only as whole words. *)

Pattern(parts, gap, tag) == [parts |-> parts, gap |-> gap, tag |-> tag]

CausePatterns ==
    << Pattern(<<{"memory"}, {"leak"}>>, FALSE, "memory_leak"),
       Pattern(<<{"cpu"}, {"usage", "spike", "high"}>>, FALSE, "high_cpu_usage"),
       Pattern(<<{"disk"}, {"space", "full"}>>, FALSE, "disk_space_issue"),
       Pattern(<<{"connection"}, {"timeout", "refused"}>>, FALSE, "connection_timeout"),
       Pattern(<<{"out"}, {"of"}, {"memory", "disk"}>>, FALSE, "resource_exhaustion"),
       Pattern(<<{"oomkilled"}>>, FALSE, "oom_killed"),
       Pattern(<<{"network"}, {"error", "issue"}>>, FALSE, "network_issue"),
       Pattern(<<{"config", "configuration"}, {"error", "issue"}>>, FALSE,
               "configuration_error"),
       Pattern(<<{"dependency"}, {"failure", "down"}>>, FALSE, "dependency_failure"),
       Pattern(<<{"rate"}, {"limit", "throttling"}>>, FALSE, "rate_limiting") >>

FixPatterns ==
    << Pattern(<<{"increase", "increases", "increased"}, {"memory", "cpu", "resource"}>>,
               TRUE, "increase_resource_limits"),
       Pattern(<<{"restart", "restarts", "restarted"}, {"pod", "service", "container"}>>,
               TRUE, "restart_component"),
       Pattern(<<{"scale", "scales", "scaled"}, {"up", "out"}>>, FALSE,
               "scale_up_resources"),
       Pattern(<<{"rollback", "rollbacks"}>>, FALSE, "rollback_deployment"),
       Pattern(<<{"fix", "fixes", "fixed"}, {"config", "configuration"}>>, FALSE,
               "fix_configuration"),
       Pattern(<<{"update", "updates", "updated"}, {"version", "image"}>>, FALSE,
               "update_component"),
       Pattern(<<{"add", "adds", "added"}, {"timeout", "retry"}>>, FALSE,
               "add_timeout_retry"),
       Pattern(<<{"clear", "clears", "cleared"}, {"cache", "buffer"}>>, FALSE,
               "clear_cache"),
       Pattern(<<{"kill", "kills", "killed"}, {"process", "pod"}>>, FALSE,
               "kill_process"),
       Pattern(<<{"add", "adds", "added"}, {"monitoring", "alert"}>>, FALSE,
               "add_monitoring") >>

CauseTags == {CausePatterns[i].tag : i \in DOMAIN CausePatterns}

FixTags == {FixPatterns[i].tag : i \in DOMAIN FixPatterns}

\* str.lower() on the words of the model that have capitals
Capitalised ==
    [Memory |-> "memory", High |-> "high", CPU |-> "cpu", Connection |-> "connection",
     Increased |-> "increased", Restarted |-> "restarted", Rollback |-> "rollback"]

lower(word) == IF word \in DOMAIN Capitalised THEN Capitalised[word] ELSE word

\* `if not text: return ""`, then text.lower().strip()
normalize_text(text) ==
    IF text = None \/ text = EmptyStr THEN EmptyStr
    ELSE Text(FALSE, [i \in DOMAIN text.words |-> lower(text.words[i])], FALSE)

\* re.search(pattern, text)
re_search(pattern, text) ==
    LET words == text.words
        n == Len(pattern.parts)
    IN  IF pattern.gap
        THEN \E i \in DOMAIN words : \E j \in DOMAIN words :
                /\ i < j
                /\ words[i] \in pattern.parts[1]
                /\ words[j] \in pattern.parts[2]
        ELSE \E i \in 1..(Len(words) - n + 1) :
                \A j \in 1..n : words[i + j - 1] \in pattern.parts[j]

\* the loop with `return [canonical]` at the first match
RECURSIVE extract_first(_, _, _)
extract_first(patterns, text, i) ==
    IF i > Len(patterns) THEN <<>>
    ELSE IF re_search(patterns[i], text) THEN <<patterns[i].tag>>
         ELSE extract_first(patterns, text, i + 1)

\* the for loop over the pattern table, from pattern `i` on
RECURSIVE extract_loop(_, _, _)
extract_loop(patterns, text, i) ==
    IF i > Len(patterns) THEN <<>>
    ELSE (IF re_search(patterns[i], text) THEN <<patterns[i].tag>> ELSE <<>>)
         \o extract_loop(patterns, text, i + 1)

extract_canonical_causes(text) == extract_loop(CausePatterns, normalize_text(text), 1)

extract_canonical_fixes(text) == extract_loop(FixPatterns, normalize_text(text), 1)

----------------------------------------------------------------------------
(* suggest_updates.py: analyze_runbook_annotations.

   Line 80, `runbook = yaml.safe_load(f) or {}`, is written at the
   indentation of the `with` of line 79 and Python rejects the file for it.
   The function is modelled with that line as the body of the `with`, the
   only reading under which it exists. *)

\* counter[key] += 1 on a Counter kept in insertion order
counter_increment(counter, key) ==
    IF key \in PairKeys(counter)
    THEN [i \in DOMAIN counter |->
            IF counter[i][1] = key THEN <<key, counter[i][2] + 1>> ELSE counter[i]]
    ELSE Append(counter, <<key, 1>>)

\* cause_fix_pairs[cause] = Counter({fix: 1})
pairs_overwrite(pairs, cause, fix) ==
    IF cause \in PairKeys(pairs)
    THEN [i \in DOMAIN pairs |->
            IF pairs[i][1] = cause THEN <<cause, << <<fix, 1>> >> >> ELSE pairs[i]]
    ELSE Append(pairs, <<cause, << <<fix, 1>> >> >>)

\* cause_fix_pairs[cause][fix] += 1 on a defaultdict(Counter)
pairs_increment(pairs, cause, fix) ==
    IF cause \in PairKeys(pairs)
    THEN [i \in DOMAIN pairs |->
            IF pairs[i][1] = cause
            THEN <<cause, counter_increment(pairs[i][2], fix)>>
            ELSE pairs[i]]
    ELSE Append(pairs, <<cause, << <<fix, 1>> >> >>)

\* for tag in tags[:1]: counter[tag] += 1
count_first(counter, tags) ==
    IF tags = <<>> THEN counter ELSE counter_increment(counter, Head(tags))

\* for tag in tags: counter[tag] += 1
RECURSIVE count_tags(_, _)
count_tags(counter, tags) ==
    IF tags = <<>> THEN counter
    ELSE count_tags(counter_increment(counter, Head(tags)), Tail(tags))

\* for cause, fix in zip(causes, fixes)
cause_fix_zip(causes, fixes) ==
    [i \in 1..(IF Len(causes) < Len(fixes) THEN Len(causes) ELSE Len(fixes)) |->
        <<causes[i], fixes[i]>>]

\* for cause in causes: for fix in fixes: the pairs in the order visited
RECURSIVE cause_fix_product(_, _)
cause_fix_product(causes, fixes) ==
    IF causes = <<>> THEN <<>>
    ELSE [i \in DOMAIN fixes |-> <<Head(causes), fixes[i]>>]
         \o cause_fix_product(Tail(causes), fixes)

RECURSIVE count_pairs(_, _)
count_pairs(pairs, visited) ==
    IF visited = <<>> THEN pairs
    ELSE count_pairs(pairs_increment(pairs, Head(visited)[1], Head(visited)[2]),
                     Tail(visited))

\* the for loop over the annotations
RECURSIVE analyze_loop(_, _)
analyze_loop(annotations, counters) ==
    IF annotations = <<>> THEN counters
    ELSE LET annotation == Head(annotations)
             causes == extract_canonical_causes(Get(annotation, "cause", EmptyStr))
             fixes == extract_canonical_fixes(Get(annotation, "fix", EmptyStr))
         IN  analyze_loop(Tail(annotations),
                 [cause_counter |-> count_tags(counters.cause_counter, causes),
                  fix_counter |-> count_tags(counters.fix_counter, fixes),
                  cause_fix_pairs |-> count_pairs(counters.cause_fix_pairs,
                                                  cause_fix_product(causes, fixes))])

\* the number of annotations that matched a pattern
matched_incidents(annotations) ==
    Cardinality({i \in DOMAIN annotations :
        \/ extract_canonical_causes(Get(annotations[i], "cause", EmptyStr)) # <<>>
        \/ extract_canonical_fixes(Get(annotations[i], "fix", EmptyStr)) # <<>>})

\* len(annotations)
total_incidents(annotations) == Len(annotations)

\* runbook = yaml.safe_load(f)
safe_load_plain(file) == yaml_safe_load(file)

\* runbook = yaml.safe_load(f) or {}
safe_load_or_empty(file) ==
    IF yaml_safe_load(file) = None THEN <<>> ELSE yaml_safe_load(file)

\* annotations = runbook.get('annotations', [])
load_annotations(file) == Get(safe_load_or_empty(file), "annotations", <<>>)

analyze_runbook_annotations(file) ==
    LET annotations == load_annotations(file)
        counters == analyze_loop(annotations,
                        [cause_counter |-> <<>>, fix_counter |-> <<>>,
                         cause_fix_pairs |-> <<>>])
    IN  [cause_counts |-> counters.cause_counter,
         fix_counts |-> counters.fix_counter,
         cause_fix_pairs |-> counters.cause_fix_pairs,
         total_incidents |-> total_incidents(annotations)]

----------------------------------------------------------------------------
(* suggest_updates.py: suggest_runbook_updates *)

\* count > min_frequency
above_min_frequency(count, min_frequency) == count > min_frequency

\* min_frequency and count >= min_frequency
truthy_and_meets_min_frequency(count, min_frequency) ==
    min_frequency # 0 /\ count >= min_frequency

\* count >= min_frequency
meets_min_frequency(count, min_frequency) == count >= min_frequency

add_step(fix, count) ==
    [type |-> "add_step", item |-> fix, count |-> count,
     reason |-> "'" \o fix \o "' applied in " \o ToString(count) \o " incidents"]

add_monitoring(cause, count) ==
    [type |-> "add_monitoring", item |-> cause, count |-> count,
     reason |-> "'" \o cause \o "' identified as root cause in "
                \o ToString(count) \o " incidents"]

relationship_item(cause, fix) == cause \o " -> " \o fix

add_relationship(cause, fix, count) ==
    [type |-> "add_relationship", item |-> relationship_item(cause, fix),
     count |-> count,
     reason |-> "'" \o cause \o "' typically fixed with '" \o fix \o "' in "
                \o ToString(count) \o " incidents"]

\* for fix, count in analysis['fix_counts'].items()
RECURSIVE suggest_steps(_, _)
suggest_steps(fix_counts, min_frequency) ==
    IF fix_counts = <<>> THEN <<>>
    ELSE (IF meets_min_frequency(Head(fix_counts)[2], min_frequency)
          THEN <<add_step(Head(fix_counts)[1], Head(fix_counts)[2])>>
          ELSE <<>>)
         \o suggest_steps(Tail(fix_counts), min_frequency)

\* the loop over cause_counts with `if count > min_frequency`
RECURSIVE suggest_monitoring_above(_, _)
suggest_monitoring_above(cause_counts, min_frequency) ==
    IF cause_counts = <<>> THEN <<>>
    ELSE (IF Head(cause_counts)[2] > min_frequency
          THEN <<add_monitoring(Head(cause_counts)[1], Head(cause_counts)[2])>>
          ELSE <<>>)
         \o suggest_monitoring_above(Tail(cause_counts), min_frequency)

\* for cause, count in analysis['cause_counts'].items()
RECURSIVE suggest_monitoring(_, _)
suggest_monitoring(cause_counts, min_frequency) ==
    IF cause_counts = <<>> THEN <<>>
    ELSE (IF meets_min_frequency(Head(cause_counts)[2], min_frequency)
          THEN <<add_monitoring(Head(cause_counts)[1], Head(cause_counts)[2])>>
          ELSE <<>>)
         \o suggest_monitoring(Tail(cause_counts), min_frequency)

\* for fix, count in fix_counts.items(), for one cause
RECURSIVE suggest_fixes_of(_, _, _)
suggest_fixes_of(cause, fix_counts, min_frequency) ==
    IF fix_counts = <<>> THEN <<>>
    ELSE (IF meets_min_frequency(Head(fix_counts)[2], min_frequency)
          THEN <<add_relationship(cause, Head(fix_counts)[1], Head(fix_counts)[2])>>
          ELSE <<>>)
         \o suggest_fixes_of(cause, Tail(fix_counts), min_frequency)

\* for cause, fix_counts in analysis['cause_fix_pairs'].items()
RECURSIVE suggest_relationships(_, _)
suggest_relationships(cause_fix_pairs, min_frequency) ==
    IF cause_fix_pairs = <<>> THEN <<>>
    ELSE suggest_fixes_of(Head(cause_fix_pairs)[1], Head(cause_fix_pairs)[2],
                          min_frequency)
         \o suggest_relationships(Tail(cause_fix_pairs), min_frequency)

suggest_runbook_updates(file, min_frequency) ==
    LET analysis == analyze_runbook_annotations(file)
    IN  suggest_steps(analysis.fix_counts, min_frequency)
        \o suggest_monitoring(analysis.cause_counts, min_frequency)
        \o suggest_relationships(analysis.cause_fix_pairs, min_frequency)

----------------------------------------------------------------------------
(* The suggestion engine applied to annotation histories *)

HistoryAnnotation(incident_id, cause, fix) ==
    [incident_id |-> incident_id, timestamp |-> "2026-01-01T10:00:00Z",
     cause |-> cause, fix |-> fix]

\* Annotations of a history: one and two tags on either side, no match on
\* either side, a missing fix key, an empty fix.
ScanAnnotations ==
    { HistoryAnnotation("INC-001", CauseCpuLeak, FixIncrease),
      HistoryAnnotation("INC-002", CauseLeak, FixBoth),
      HistoryAnnotation("INC-003", CauseTimeout, FixOther),
      HistoryAnnotation("INC-004", CauseCpuLeak, FixBoth),
      HistoryAnnotation("INC-006", CauseLeak, EmptyStr),
      [incident_id |-> "INC-005", timestamp |-> "2026-01-01T10:00:00Z",
       cause |-> CauseOther] }

MinFrequencies == {-1, 0, 1, 2, 3}

InitSuggest ==
    /\ disk \in {yaml_dump(Put(BaseDoc, "annotations", h))
                    : h \in SeqsUpTo(ScanAnnotations, MaxScan)}
                \cup {yaml_dump(BaseDoc), EmptyFile}
    /\ tmp = NoFile
    /\ pc = "idle"
    /\ call = Idle
    /\ runbook = None
    /\ ret = NoResult
    /\ called = disk

\* runbook.get on the value of line 80 raises when that value is None
analyze_runbook_annotations_call ==
    /\ pc = "idle"
    /\ call' = [fn |-> "analyze_runbook_annotations"]
    /\ ret' = IF safe_load_or_empty(disk) = None
              THEN [status |-> "raised", error |-> "AttributeError"]
              ELSE [status |-> "returned", value |-> analyze_runbook_annotations(disk)]
    /\ UNCHANGED <<disk, tmp, pc, runbook, called>>

\* runbook['suggestions'] = suggestions; yaml.dump(runbook, f)
runbook_with_suggestions(file, suggestions) ==
    yaml_dump(Put(DocOf(file), "suggestions", suggestions))

\* The runbook file after suggest_runbook_updates and print_suggestions:
\* the file is opened for reading only and the suggestions are printed.
runbook_after_suggestions(file, suggestions) == file

suggest_runbook_updates_call ==
    \E min_frequency \in MinFrequencies :
        /\ pc = "idle"
        /\ call' = [fn |-> "suggest_runbook_updates", min_frequency |-> min_frequency]
        /\ ret' = IF safe_load_or_empty(disk) = None
                  THEN [status |-> "raised", error |-> "AttributeError"]
                  ELSE [status |-> "returned",
                        value |-> suggest_runbook_updates(disk, min_frequency)]
        /\ disk' = runbook_after_suggestions(disk, suggest_runbook_updates(disk, min_frequency))
        /\ UNCHANGED <<tmp, pc, runbook, called>>

NextSuggest ==
    \/ analyze_runbook_annotations_call
    \/ suggest_runbook_updates_call

SpecSuggest == InitSuggest /\ [][NextSuggest]_vars

----------------------------------------------------------------------------
(* Properties of the suggestion engine, checked under SpecSuggest *)

\* Counts read as mappings, 0 for a tag without an entry.
CountOf(counter, tag) == PairGet(counter, tag, 0)

PairCountOf(pairs, cause, fix) == CountOf(PairGet(pairs, cause, <<>>), fix)

\* Python's == on two results of analyze_runbook_annotations
SameAnalysis(a, b) ==
    /\ AsMap(a.cause_counts) = AsMap(b.cause_counts)
    /\ AsMap(a.fix_counts) = AsMap(b.fix_counts)
    /\ PairKeys(a.cause_fix_pairs) = PairKeys(b.cause_fix_pairs)
    /\ \A c \in PairKeys(a.cause_fix_pairs) :
          AsMap(PairGet(a.cause_fix_pairs, c, <<>>))
              = AsMap(PairGet(b.cause_fix_pairs, c, <<>>))
    /\ a.total_incidents = b.total_incidents

Annotations == load_annotations(disk)

CausesOf(annotation) ==
    LET tags == extract_canonical_causes(Get(annotation, "cause", EmptyStr))
    IN  {tags[i] : i \in DOMAIN tags}

FixesOf(annotation) ==
    LET tags == extract_canonical_fixes(Get(annotation, "fix", EmptyStr))
    IN  {tags[i] : i \in DOMAIN tags}

RECURSIVE CauseSets(_)
CauseSets(annotations) ==
    IF annotations = <<>> THEN <<>>
    ELSE <<CausesOf(Head(annotations))>> \o CauseSets(Tail(annotations))

RECURSIVE FixSets(_)
FixSets(annotations) ==
    IF annotations = <<>> THEN <<>>
    ELSE <<FixesOf(Head(annotations))>> \o FixSets(Tail(annotations))

Of(suggestions, type, item) ==
    {i \in DOMAIN suggestions : suggestions[i].type = type /\ suggestions[i].item = item}

Called(fns) == ret.status # "none" /\ call.fn \in fns

ZeroAnnotations(file) == Get(DocOf(file), "annotations", <<>>) = <<>>

----------------------------------------------------------------------------
(* The classifiers applied to texts *)

ClassifyWords == {"Memory", "leak", "Restarted", "killed", "pod", "the", "CPU", "usage"}

\* Every text of at most MaxWords words, with and without surrounding
\* whitespace, the texts of the histories, the empty string and None.
ClassifyTexts ==
    { Text(lead, words, trail) :
        lead \in BOOLEAN, words \in SeqsUpTo(ClassifyWords, MaxWords), trail \in BOOLEAN }
    \cup {None, EmptyStr, CauseLeak, CauseCpuLeak, CauseTimeout, CauseOther,
           FixIncrease, FixRestart, FixBoth, FixOther}

\* The text to classify is the argument of every call of a behaviour.
InitClassify ==
    /\ disk = EmptyFile
    /\ tmp = NoFile
    /\ pc = "idle"
    /\ call \in {[fn |-> "none", text |-> text] : text \in ClassifyTexts}
    /\ runbook = None
    /\ ret = NoResult
    /\ called = disk

extract_canonical_causes_call ==
    /\ pc = "idle"
    /\ call' = [fn |-> "extract_canonical_causes", text |-> call.text]
    /\ ret' = [status |-> "returned", value |-> extract_canonical_causes(call.text)]
    /\ UNCHANGED <<disk, tmp, pc, runbook, called>>

extract_canonical_fixes_call ==
    /\ pc = "idle"
    /\ call' = [fn |-> "extract_canonical_fixes", text |-> call.text]
    /\ ret' = [status |-> "returned", value |-> extract_canonical_fixes(call.text)]
    /\ UNCHANGED <<disk, tmp, pc, runbook, called>>

NextClassify ==
    \/ extract_canonical_causes_call
    \/ extract_canonical_fixes_call

SpecClassify == InitClassify /\ [][NextClassify]_vars

\* The words of a text in lower case, surrounding whitespace dropped; no
\* words for None and for the empty string.
LowerTrimmed(text) ==
    IF text = None THEN <<>> ELSE [i \in DOMAIN text.words |-> lower(text.words[i])]

VocabularyOf(fn) == IF fn = "extract_canonical_causes" THEN CausePatterns ELSE FixPatterns

Classifiers == {"extract_canonical_causes", "extract_canonical_fixes"}

C13_WitnessNoMatch ==
    /\ Returned({"extract_canonical_causes"})
    /\ call.text = CauseOther
    /\ ret.value = <<>>

----------------------------------------------------------------------------
(* diagnostics.py: generate_result_hash and create_diagnostic_record applied
   to payloads *)

\* The same value with the keys of its mappings inserted in every order, at
\* every depth.
RECURSIVE InsertionOrders(_)
RECURSIVE ItemOrders(_)
RECURSIVE PairOrders(_)

\* the items of a list, each in every insertion order, the list order kept
ItemOrders(items) ==
    IF items = <<>> THEN {<<>>}
    ELSE {<<first>> \o rest : first \in InsertionOrders(Head(items)),
                              rest \in ItemOrders(Tail(items))}

\* the pairs of a mapping, each value in every insertion order, the order of
\* the pairs kept
PairOrders(pairs) ==
    IF pairs = <<>> THEN {<<>>}
    ELSE {<< <<Head(pairs)[1], first>> >> \o rest :
              first \in InsertionOrders(Head(pairs)[2]),
              rest \in PairOrders(Tail(pairs))}

InsertionOrders(value) ==
    IF Has(value, "dict")
    THEN {Dict([i \in DOMAIN pairs |-> pairs[p[i]]]) :
              pairs \in PairOrders(value.dict), p \in Permutations(DOMAIN value.dict)}
    ELSE IF Has(value, "list")
    THEN {List(items) : items \in ItemOrders(value.list)}
    ELSE {value}

\* What get_system_metrics and get_system_processes return, a payload with
\* a timestamp, and the payload of the test.
LoadAverage == Dict(<< <<"1min", Num(1)>>, <<"5min", Num(2)>> >>)

Memory(used_kb) == Dict(<< <<"free_kb", Num(3)>>, <<"used_kb", Num(used_kb)>> >>)

Process(pid, command) == Dict(<< <<"pid", Str(pid)>>, <<"command", Str(command)>> >>)

JsonPayloads ==
    { Dict(<< <<"load_average", LoadAverage>>, <<"memory", Memory(4)>> >>),
      Dict(<< <<"load_average", LoadAverage>>, <<"memory", Memory(5)>> >>),
      Dict(<< <<"processes", List(<<Process("1", "init"), Process("2", "java")>>)>>,
              <<"total_processes", Num(2)>> >>),
      Dict(<< <<"captured_at", Datetime("2026-01-04 10:00:00")>>,
              <<"cpu_usage", Num(45)>>, <<"memory", Memory(4)>> >>),
      Dict(<< <<"cpu_usage", Num(45)>>, <<"memory_usage", Num(67)>>,
              <<"disk_usage", Num(82)>> >>) }

\* Payloads json.dumps cannot write by itself: a set (two equal sets that
\* iterate in different orders), an object without __str__ (at two
\* addresses) and a container that holds itself.
OtherPayloads ==
    { Dict(<< <<"tags", SetOf(<<0, 8>>)>>, <<"cpu_usage", Num(45)>> >>),
      Dict(<< <<"tags", SetOf(<<8, 0>>)>>, <<"cpu_usage", Num(45)>> >>),
      Dict(<< <<"top_processes", Object(1)>> >>),
      Dict(<< <<"top_processes", Object(2)>> >>),
      Dict(<< <<"self", Circular>> >>),
      Dict(<< <<"cpu_usage", Num(45)>>, <<"processes", List(<<Circular>>)>> >>) }

HashPayloads ==
    {value.dict : value \in UNION {InsertionOrders(base) : base \in JsonPayloads \cup OtherPayloads}}

\* The payload is the argument of every call of a behaviour.
InitHash ==
    /\ disk = EmptyFile
    /\ tmp = NoFile
    /\ pc = "idle"
    /\ call \in {[fn |-> "none", result_blob |-> blob] : blob \in HashPayloads}
    /\ runbook = None
    /\ ret = NoResult
    /\ called = disk

generate_result_hash_call ==
    /\ pc = "idle"
    /\ call' = [fn |-> "generate_result_hash", result_blob |-> call.result_blob]
    /\ ret' = IF has_circular_reference(Dict(call.result_blob))
              THEN [status |-> "raised", error |-> "ValueError"]
              ELSE [status |-> "returned", value |-> generate_result_hash(call.result_blob)]
    /\ UNCHANGED <<disk, tmp, pc, runbook, called>>

\* the error of generate_result_hash leaves create_diagnostic_record before
\* the record is built
create_diagnostic_record_call ==
    \E timestamp \in Timestamps :
        /\ pc = "idle"
        /\ call' = [fn |-> "create_diagnostic_record", result_blob |-> call.result_blob]
        /\ ret' = IF has_circular_reference(Dict(call.result_blob))
                  THEN [status |-> "raised", error |-> "ValueError"]
                  ELSE [status |-> "returned",
                        value |-> create_diagnostic_record(timestamp, "kubectl",
                                      "get_system_metrics", call.result_blob, "automated")]
        /\ UNCHANGED <<disk, tmp, pc, runbook, called>>

NextHash ==
    \/ generate_result_hash_call
    \/ create_diagnostic_record_call

SpecHash == InitHash /\ [][NextHash]_vars

\* The value holds, at some depth, something of the given kind.
RECURSIVE Holds(_, _)
Holds(value, kind) ==
    IF Has(value, "dict")
    THEN \E i \in DOMAIN value.dict : Holds(value.dict[i][2], kind)
    ELSE IF Has(value, "list")
    THEN \E i \in DOMAIN value.list : Holds(value.list[i], kind)
    ELSE Has(value, kind)

\* A JSON-serializable structure, timestamps allowed: the result_blob of the
\* data model.
JsonSerializable(result_blob) ==
    \A kind \in {"set", "object", "circular"} : ~Holds(Dict(result_blob), kind)

\* C14: generate_result_hash gives the same digest for any two payloads
\* that are equal as structures, whatever the insertion order of the keys
\* of their mappings at any depth (a repeated call with an equal payload
\* included).
C14_HashIgnoresInsertionOrder ==
    Called({"generate_result_hash"}) /\ JsonSerializable(call.result_blob) =>
        /\ ret.status = "returned"
        /\ \A other \in HashPayloads :
              DictEq(other, call.result_blob) => generate_result_hash(other) = ret.value

\* A payload has been hashed whose outer keys and whose nested keys were
\* both inserted out of order, and another payload equal to it was inserted
\* in sorted order.
C14_Witness ==
    /\ Returned({"generate_result_hash"})
    /\ call.result_blob = << <<"memory", Dict(<< <<"used_kb", Num(4)>>, <<"free_kb", Num(3)>> >>)>>,
                             <<"load_average", Dict(<< <<"5min", Num(2)>>, <<"1min", Num(1)>> >>)>> >>
    /\ \E other \in HashPayloads :
          /\ other = sort_keys(Dict(other)).dict
          /\ other # call.result_blob
          /\ DictEq(other, call.result_blob)

\* result_blob cannot be canonically serialized: it holds itself, or a
\* value whose string form is not determined by the value.
NotCanonicallySerializable(result_blob) == ~JsonSerializable(result_blob)

\* C15: when result_blob cannot be canonically serialized,
\* generate_result_hash ends in an error and returns no digest, and
\* create_diagnostic_record produces no record.
C15_UnserializableFails ==
    Called({"generate_result_hash", "create_diagnostic_record"})
      /\ NotCanonicallySerializable(call.result_blob) =>
        ret.status = "raised"

\* The part of C15 the code keeps: a payload that holds itself ends both
\* functions in json.dumps' ValueError.
CircularPayloadRaises ==
    Called({"generate_result_hash", "create_diagnostic_record"})
      /\ Holds(Dict(call.result_blob), "circular") =>
        ret = [status |-> "raised", error |-> "ValueError"]

\* What default=str does instead for a set: a digest is returned, the
\* digest of the string str() gives for the order the set iterates in, so
\* an equal set that iterates in another order gets another digest.
EqualSetsHashDifferently ==
    Called({"generate_result_hash"}) /\ Holds(Dict(call.result_blob), "set") =>
        /\ ret.status = "returned"
        /\ \E other \in HashPayloads :
              DictEq(other, call.result_blob) /\ generate_result_hash(other) # ret.value

----------------------------------------------------------------------------
(* Properties of compare_diagnostics and of records with missing fields,
   checked under SpecCompare *)

\* The result_blob of a record as a mapping from its top-level keys, the
\* empty mapping when the record has none.
BlobOf(diagnostic) ==
    [key \in PairKeys(Get(diagnostic, "result_blob", <<>>)) |->
        PairGet(diagnostic.result_blob, key, None)]

\* C16: the differences of compare_diagnostics(a, b) have exactly these
\* entries over the top-level keys of the two result_blobs: a key in both
\* with unequal values maps to both values, a key only in a to (value of
\* a, null), a key only in b to (null, value of b); a key in both with equal
\* values has no entry, and comparing a record with itself gives no entry.
C16_DifferencesByCase ==
    Returned({"compare_diagnostics"}) =>
        \A a \in {BlobOf(call.diagnostic1)} : \A b \in {BlobOf(call.diagnostic2)} :
        \A differences \in {ret.value.differences} :
            /\ DOMAIN differences \subseteq (DOMAIN a) \cup (DOMAIN b)
            /\ \A key \in (DOMAIN a) \cap (DOMAIN b) :
                  IF Structure(a[key]) = Structure(b[key])
                  THEN key \notin DOMAIN differences
                  ELSE /\ key \in DOMAIN differences
                       /\ differences[key] = [value1 |-> a[key], value2 |-> b[key]]
            /\ \A key \in (DOMAIN a) \ (DOMAIN b) :
                  /\ key \in DOMAIN differences
                  /\ differences[key] = [value1 |-> a[key], value2 |-> None]
            /\ \A key \in (DOMAIN b) \ (DOMAIN a) :
                  /\ key \in DOMAIN differences
                  /\ differences[key] = [value1 |-> None, value2 |-> b[key]]
            /\ call.diagnostic1 = call.diagnostic2 => DOMAIN differences = {}

\* Two records have been compared that share a key with equal values and a
\* key with unequal values and have each a key of their own.
C16_Witness ==
    /\ Returned({"compare_diagnostics"})
    /\ DOMAIN BlobOf(call.diagnostic1) = {"cpu_usage", "memory_usage"}
    /\ DOMAIN BlobOf(call.diagnostic2) = {"cpu_usage", "memory"}
    /\ DOMAIN ret.value.differences = {"cpu_usage", "memory_usage", "memory"}

\* Two different records whose result_blobs are equal have been compared.
C16_WitnessSelf ==
    /\ Returned({"compare_diagnostics"})
    /\ call.diagnostic1 # call.diagnostic2
    /\ BlobOf(call.diagnostic1) # << >>
    /\ ret.value.differences = << >>

----------------------------------------------------------------------------
(* Two append operations on the same runbook file at the same time: two
   processes (two requests of the Slack app, two runs of a script), each
   making one call. Here pc, call, runbook, ret and tmp hold one value per
   process; nothing in the code makes a process wait for another. *)

Procs == {1, 2}

IncidentOf == <<"INC-1", "INC-2">>

TimestampOf == <<"2026-01-04T10:00:01", "2026-01-04T10:00:02">>

\* The calls process p can make; its record is recognised by its
\* incident_id or timestamp.
ConcurrentCalls ==
  [p \in Procs |->
    { [fn |-> "annotate_runbook", incident_id |-> IncidentOf[p], cause |-> CauseLeak,
       fix |-> FixIncrease, symptoms |-> None, runbook_gap |-> None],
      [fn |-> "append_annotation_to_runbook",
       annotation |-> [incident_id |-> IncidentOf[p], timestamp |-> TimestampOf[p],
                       cause |-> CauseTimeout, fix |-> FixRestart]],
      [fn |-> "diagnostics.append_diagnostic_to_runbook",
       diagnostic_record |->
           create_diagnostic_record(TimestampOf[p], "kubectl", "get_system_metrics",
                                    << <<"memory_usage", Num(67)>>, <<"cpu_usage", Num(45)>> >>,
                                    "automated")] }]

InitConcurrent ==
    /\ disk \in {yaml_dump(d) : d \in InitialDocs}
    /\ tmp = [p \in Procs |-> NoFile]
    /\ pc = [p \in Procs |-> "idle"]
    /\ call = [p \in Procs |-> Idle]
    /\ runbook = [p \in Procs |-> None]
    /\ ret = [p \in Procs |-> NoResult]
    /\ called = disk

AtBy(p, fn, position) == pc[p] = position /\ call[p].fn = fn

\* process p takes one step of its call: its position, its local variable
\* `runbook` and the runbook file change as given
StepBy(p, position, local, file) ==
    /\ pc' = [pc EXCEPT ![p] = position]
    /\ runbook' = [runbook EXCEPT ![p] = local]
    /\ disk' = file
    /\ UNCHANGED <<call, called>>

RaiseBy(p, error) ==
    /\ StepBy(p, "done", None, disk)
    /\ ret' = [ret EXCEPT ![p] = [status |-> "raised", error |-> error]]
    /\ UNCHANGED tmp

ReturnBy(p, file) ==
    /\ StepBy(p, "done", None, file)
    /\ ret' = [ret EXCEPT ![p] = [status |-> "returned"]]

concurrent_call(p) ==
    \E c \in ConcurrentCalls[p] :
        /\ pc[p] = "idle"
        /\ call' = [call EXCEPT ![p] = c]
        /\ pc' = [pc EXCEPT ![p] = "load"]
        /\ UNCHANGED <<disk, tmp, runbook, ret, called>>

\* with open(runbook_path, 'r') as f: runbook = yaml.safe_load(f), the same
\* in the three functions
concurrent_load(p) ==
    /\ pc[p] = "load"
    /\ StepBy(p, "append", yaml_safe_load(disk), disk)
    /\ UNCHANGED <<tmp, ret>>

concurrent_annotate_runbook_append(p) ==
    /\ AtBy(p, "annotate_runbook", "append")
    /\ IF runbook[p] = None
       THEN RaiseBy(p, "AttributeError")
       ELSE /\ StepBy(p, "tempfile",
                      Put(runbook[p], "annotations",
                          list_append(Get(runbook[p], "annotations", <<>>),
                                      new_annotation(call[p], TimestampOf[p]))),
                      disk)
            /\ UNCHANGED <<tmp, ret>>

concurrent_annotate_runbook_tempfile(p) ==
    /\ AtBy(p, "annotate_runbook", "tempfile")
    /\ tmp' = [tmp EXCEPT ![p] = yaml_dump(runbook[p])]
    /\ StepBy(p, "replace", runbook[p], disk)
    /\ UNCHANGED ret

concurrent_annotate_runbook_replace(p) ==
    /\ AtBy(p, "annotate_runbook", "replace")
    /\ tmp' = [tmp EXCEPT ![p] = NoFile]
    /\ ReturnBy(p, tmp[p])

concurrent_append_annotation_to_runbook_append(p) ==
    /\ AtBy(p, "append_annotation_to_runbook", "append")
    /\ IF runbook[p] = None
       THEN RaiseBy(p, "TypeError")
       ELSE /\ StepBy(p, "open",
                      Put(runbook[p], "annotations",
                          list_append(Get(runbook[p], "annotations", <<>>),
                                      call[p].annotation)),
                      disk)
            /\ UNCHANGED <<tmp, ret>>

concurrent_append_diagnostic_to_runbook_append(p) ==
    /\ AtBy(p, "diagnostics.append_diagnostic_to_runbook", "append")
    /\ IF runbook[p] = None
       THEN RaiseBy(p, "TypeError")
       ELSE /\ StepBy(p, "open",
                      Put(runbook[p], "diagnostics",
                          diagnostics_append(Get(runbook[p], "diagnostics", <<>>),
                                             call[p].diagnostic_record)),
                      disk)
            /\ UNCHANGED <<tmp, ret>>

\* open(runbook_path, 'w') in the Slack handler and in diagnostics.py
concurrent_open(p) ==
    /\ pc[p] = "open"
    /\ StepBy(p, "dump", runbook[p], EmptyFile)
    /\ UNCHANGED <<tmp, ret>>

\* yaml.dump(runbook, f) in the Slack handler and in diagnostics.py
concurrent_dump(p) ==
    /\ pc[p] = "dump"
    /\ ReturnBy(p, yaml_dump(runbook[p]))
    /\ UNCHANGED tmp

NextConcurrent ==
    \E p \in Procs :
        \/ concurrent_call(p)
        \/ concurrent_load(p)
        \/ concurrent_annotate_runbook_append(p)
        \/ concurrent_annotate_runbook_tempfile(p)
        \/ concurrent_annotate_runbook_replace(p)
        \/ concurrent_append_annotation_to_runbook_append(p)
        \/ concurrent_append_diagnostic_to_runbook_append(p)
        \/ concurrent_open(p)
        \/ concurrent_dump(p)

SpecConcurrent == InitConcurrent /\ [][NextConcurrent]_vars

\* The record process p appended is in the file.
KeptRecordOf(p) ==
    IF call[p].fn = "diagnostics.append_diagnostic_to_runbook"
    THEN \E i \in DOMAIN ListOf(disk, "diagnostics") :
            ListOf(disk, "diagnostics")[i].timestamp = TimestampOf[p]
    ELSE \E i \in DOMAIN ListOf(disk, "annotations") :
            ListOf(disk, "annotations")[i].incident_id = IncidentOf[p]

BothCompleted == \A p \in Procs : pc[p] = "done" /\ ret[p].status = "returned"

\* C19: when two append operations on the same runbook file run with their
\* read and write steps interleaved and both complete, the final document
\* contains both appended records.
C19_BothRecordsKept ==
    BothCompleted => \A p \in Procs : KeptRecordOf(p)

\* What the code does keep: the record of the call that wrote last, in a
\* complete document.
LastWriterKept ==
    BothCompleted => Loadable(disk) /\ \E p \in Procs : KeptRecordOf(p)

----------------------------------------------------------------------------
(* The four analytical operations on one runbook *)

\* Runbooks with an annotation history and a diagnostics history.
InitAnalysis ==
    /\ disk \in {yaml_dump(Put(Put(BaseDoc, "annotations", a), "diagnostics", d)) :
                    a \in SeqsUpTo(ScanAnnotations, 1), d \in SeqsUpTo(HistoryRecords, 2)}
    /\ tmp = NoFile
    /\ pc = "idle"
    /\ call = Idle
    /\ runbook = None
    /\ ret = NoResult
    /\ called = disk

NextAnalysis ==
    \/ analyze_runbook_annotations_call
    \/ suggest_runbook_updates_call
    \/ find_similar_diagnostics_call
    \/ compare_diagnostics_call

SpecAnalysis == InitAnalysis /\ [][NextAnalysis]_vars

AnalyticalOperations ==
    {"analyze_runbook_annotations", "suggest_runbook_updates",
     "find_similar_diagnostics", "compare_diagnostics"}

\* C18: after any sequence of calls of analyze_runbook_annotations,
\* suggest_runbook_updates, find_similar_diagnostics and compare_diagnostics
\* the runbook file holds what it held before the first call, no other file
\* was written, the records given to compare_diagnostics are records of
\* that history, and the runbook holds no suggestion.
C18_AnalysisLeavesRunbook ==
    Called(AnalyticalOperations) =>
        /\ disk = called
        /\ tmp = NoFile
        /\ ~Has(DocOf(disk), "suggestions")
        /\ call.fn = "compare_diagnostics" =>
              \A d \in {call.diagnostic1, call.diagnostic2} :
                  \E i \in DOMAIN ListOf(called, "diagnostics") :
                      ListOf(called, "diagnostics")[i] = d

\* Suggestions have been returned for a runbook with an annotation and two
\* diagnostics.
C18_Witness ==
    /\ Returned({"suggest_runbook_updates"})
    /\ ret.value # <<>>
    /\ Len(ListOf(disk, "annotations")) = 1
    /\ Len(ListOf(disk, "diagnostics")) = 2

----------------------------------------------------------------------------
(* slack/handler.py: handle_slack_annotation. Here `disk` gives the file
   under each path (NoFile where there is none) and `call` is the frame of
   the handler: the payload, then the annotation and the runbook_path that
   create_annotation_from_slack_payload returned. *)

Paths == {"runbooks/service-x/runbook.yaml", "runbooks/service-y/runbook.yaml"}

\* A str of the modal, as the lines its '\n' separate, each line a Text:
\* ''.split('\n') is [''].
Lines(lines) == [type |-> "str", lines |-> lines]

Input(value) == [input |-> [value |-> value]]

StateValues(incident_id, symptoms, root_cause, fix_applied, runbook_gaps, runbook_path) ==
    [incident_id |-> Input(incident_id), symptoms |-> Input(symptoms),
     root_cause |-> Input(root_cause), fix_applied |-> Input(fix_applied),
     runbook_gaps |-> Input(runbook_gaps), runbook_path |-> Input(runbook_path)]

Payload(state_values) == [view |-> [state |-> [values |-> state_values]]]

\* a dict without one of its keys
Without(d, k) == [x \in (DOMAIN d) \ {k} |-> d[x]]

NoLines == Lines(<<EmptyStr>>)

Blank == Text(TRUE, <<>>, TRUE)

ExampleValues ==
    StateValues("INC-3",
                Lines(<<Text(FALSE, <<"High", "CPU", "usage">>, FALSE),
                        Text(TRUE, <<"5xx", "errors">>, TRUE)>>),
                CauseLeak, FixIncrease,
                Lines(<<Text(FALSE, <<"no", "memory", "step">>, TRUE)>>),
                "runbooks/service-x/runbook.yaml")

SlackPayloads ==
    { Payload(ExampleValues),
      Payload(StateValues("INC-4", NoLines, CauseTimeout, FixRestart, NoLines,
                          "runbooks/service-y/runbook.yaml")),
      Payload(StateValues("INC-5", Lines(<<Blank, Blank>>), CauseOther, FixOther,
                          Lines(<<Text(FALSE, <<"no", "alert">>, FALSE), Blank,
                                  Text(TRUE, <<"no", "owner">>, FALSE)>>),
                          "runbooks/service-x/runbook.yaml")),
      Payload(Without(ExampleValues, "root_cause")),
      Payload(Without(ExampleValues, "runbook_path")),
      Payload(Put(ExampleValues, "symptoms", [input |-> <<>>])),
      Payload(Put(ExampleValues, "symptoms", Input(None))),
      Payload(Put(ExampleValues, "runbook_gaps", Input(None))),
      [view |-> <<>>],
      <<>> }

RequiredValues ==
    <<"incident_id", "symptoms", "root_cause", "fix_applied", "runbook_gaps", "runbook_path">>

\* payload['view']['state']['values'] and the six [...]['input']['value']
HasValues(payload) ==
    /\ Has(payload, "view")
    /\ Has(payload["view"], "state")
    /\ Has(payload["view"]["state"], "values")
    /\ \A i \in DOMAIN RequiredValues :
          /\ Has(payload["view"]["state"]["values"], RequiredValues[i])
          /\ Has(payload["view"]["state"]["values"][RequiredValues[i]], "input")
          /\ Has(payload["view"]["state"]["values"][RequiredValues[i]]["input"], "value")

ValueOf(payload, name) == payload["view"]["state"]["values"][name]["input"]["value"]

str_strip(line) == Text(FALSE, line.words, FALSE)

\* [s.strip() for s in text.split('\n') if s.strip()]
stripped_lines(text) ==
    LET kept == SelectSeq(text.lines, LAMBDA s : str_strip(s) # EmptyStr)
    IN  [i \in DOMAIN kept |-> str_strip(kept[i])]

slack_annotation(payload, timestamp) ==
    LET symptoms == stripped_lines(ValueOf(payload, "symptoms"))
        runbook_gap_list == stripped_lines(ValueOf(payload, "runbook_gaps"))
        annotation == [incident_id |-> ValueOf(payload, "incident_id"),
                       timestamp |-> timestamp,
                       cause |-> ValueOf(payload, "root_cause"),
                       fix |-> ValueOf(payload, "fix_applied")]
        withSymptoms ==
            IF symptoms # <<>> THEN Put(annotation, "symptoms", symptoms) ELSE annotation
    IN  IF runbook_gap_list # <<>>
        THEN Put(withSymptoms, "runbook_gap",
                 IF Len(runbook_gap_list) = 1 THEN runbook_gap_list[1]
                 ELSE PyList(runbook_gap_list))
        ELSE withSymptoms

create_annotation_from_slack_payload(payload, timestamp) ==
    IF ~HasValues(payload)
    THEN [status |-> "raised", error |-> "KeyError"]
    ELSE IF ValueOf(payload, "symptoms") = None \/ ValueOf(payload, "runbook_gaps") = None
    THEN [status |-> "raised", error |-> "AttributeError"]
    ELSE [status |-> "returned",
          annotation |-> slack_annotation(payload, timestamp),
          runbook_path |-> ValueOf(payload, "runbook_path")]

PriorAnnotation ==
    [incident_id |-> "INC-1", timestamp |-> "2026-01-01T10:00:00",
     cause |-> CauseCpuLeak, fix |-> FixBoth]

SlackFiles ==
    { NoFile, EmptyFile,
      yaml_dump(BaseDoc),
      yaml_dump(Put(BaseDoc, "annotations", <<>>)),
      yaml_dump(Put(BaseDoc, "annotations", <<PriorAnnotation>>)) }

InitSlack ==
    /\ disk \in [Paths -> SlackFiles]
    /\ tmp = NoFile
    /\ pc = "idle"
    /\ call \in {[fn |-> "none", payload |-> payload] : payload \in SlackPayloads}
    /\ runbook = None
    /\ ret = NoResult
    /\ called = disk

\* except Exception as e: return {"response_action": "errors", ...}
Respond(error) ==
    /\ pc' = "idle"
    /\ ret' = [status |-> "returned",
               value |-> [response_action |-> "errors", errors |-> error]]
    /\ runbook' = None
    /\ UNCHANGED <<disk, tmp, call, called>>

handle_slack_annotation_call ==
    /\ pc = "idle"
    /\ \A path \in Paths : Len(ListOf(disk[path], "annotations")) < MaxAnnotations
    /\ call' = [fn |-> "handle_slack_annotation", payload |-> call.payload]
    /\ pc' = "create"
    /\ called' = disk
    /\ ret' = NoResult
    /\ runbook' = None
    /\ UNCHANGED <<disk, tmp>>

handle_slack_annotation_create ==
    \E timestamp \in Timestamps :
        /\ At("handle_slack_annotation", "create")
        /\ \A created \in {create_annotation_from_slack_payload(call.payload, timestamp)} :
              IF created.status = "raised"
              THEN Respond(created.error)
              ELSE /\ call' = [fn |-> call.fn, payload |-> call.payload,
                               annotation |-> created.annotation,
                               runbook_path |-> created.runbook_path]
                   /\ pc' = "load"
                   /\ UNCHANGED <<disk, tmp, runbook, ret, called>>

handle_slack_annotation_load ==
    /\ At("handle_slack_annotation", "load")
    /\ IF disk[call.runbook_path] = NoFile
       THEN Respond("FileNotFoundError")
       ELSE /\ runbook' = yaml_safe_load(disk[call.runbook_path])
            /\ pc' = "append"
            /\ UNCHANGED <<disk, tmp, call, ret, called>>

handle_slack_annotation_append ==
    /\ At("handle_slack_annotation", "append")
    /\ IF runbook = None
       THEN Respond("TypeError")
       ELSE /\ runbook' = Put(runbook, "annotations",
                              list_append(Get(runbook, "annotations", <<>>),
                                          call.annotation))
            /\ pc' = "open"
            /\ UNCHANGED <<disk, tmp, call, ret, called>>

\* open(runbook_file, 'w') truncates the file, or fails on a file that may
\* not be written
handle_slack_annotation_open ==
    /\ At("handle_slack_annotation", "open")
    /\ \/ /\ disk' = [disk EXCEPT ![call.runbook_path] = EmptyFile]
          /\ pc' = "dump"
          /\ UNCHANGED <<tmp, call, runbook, ret, called>>
       \/ Respond("PermissionError")

\* yaml.dump writes the document, or the write fails (a full device) and
\* leaves the file as open left it
handle_slack_annotation_dump ==
    /\ At("handle_slack_annotation", "dump")
    /\ \/ /\ disk' = [disk EXCEPT ![call.runbook_path] = yaml_dump(runbook)]
          /\ pc' = "idle"
          /\ ret' = [status |-> "returned", value |-> [response_action |-> "push"]]
          /\ runbook' = None
          /\ UNCHANGED <<tmp, call, called>>
       \/ Respond("OSError")

NextSlack ==
    \/ handle_slack_annotation_call
    \/ handle_slack_annotation_create
    \/ handle_slack_annotation_load
    \/ handle_slack_annotation_append
    \/ handle_slack_annotation_open
    \/ handle_slack_annotation_dump

SpecSlack == InitSlack /\ [][NextSlack]_vars

----------------------------------------------------------------------------
(* Properties of the Slack handler, checked under SpecSlack *)

Handled == pc = "idle" /\ call.fn = "handle_slack_annotation"

\* the runbook under `path` holds the document from before the call with the
\* handler's annotation appended, and every other file is as it was
AnnotationAppendedTo(path) ==
    /\ OneAppended(called[path], disk[path], "annotations")
    /\ Last(disk[path].doc["annotations"]) = call.annotation
    /\ \A other \in Paths \ {path} : disk[other] = called[other]

\* C21: handle_slack_annotation never raises: for every payload it returns
\* either a response with response_action "push", and then exactly one
\* annotation was appended to the named runbook, or a response with
\* response_action "errors", and then the runbook file is unchanged.
C21_PushAppendsErrorsLeaveUnchanged ==
    Handled =>
        /\ ret.status = "returned"
        /\ \/ /\ ret.value.response_action = "push"
              /\ AnnotationAppendedTo(call.runbook_path)
           \/ /\ ret.value.response_action = "errors"
              /\ disk = called

\* The part of C21 that the code keeps: the handler always returns a
\* response, "push" goes with exactly one appended annotation, and "errors"
\* leaves every file unchanged unless the error came from writing the file.
ErrorsBeforeWritingLeaveUnchanged ==
    Handled =>
        /\ ret.status = "returned"
        /\ \/ /\ ret.value.response_action = "push"
              /\ AnnotationAppendedTo(call.runbook_path)
           \/ /\ ret.value.response_action = "errors"
              /\ ret.value.errors # "OSError" => disk = called
              /\ ret.value.errors = "OSError" =>
                    /\ disk[call.runbook_path] = EmptyFile
                    /\ \A other \in Paths \ {call.runbook_path} :
                          disk[other] = called[other]

\* The cases of C21: a saved annotation with both optional fields, and an
\* error for a missing payload field, a missing file and an empty document.
SavedAnnotation ==
    /\ Handled
    /\ ret.value.response_action = "push"
    /\ Has(call.annotation, "symptoms")
    /\ Has(call.annotation, "runbook_gap")

ErrorOf(error) ==
    Handled /\ ret.value.response_action = "errors" /\ ret.value.errors = error

PayloadFieldMissing == ErrorOf("KeyError")

RunbookFileMissing == ErrorOf("FileNotFoundError")

RunbookDocumentEmpty == ErrorOf("TypeError")

WriteFailed == ErrorOf("OSError")

====
